---- MODULE Spec2Model ----
(***************************************************************************)
(* Snippet Generator: the eight action handlers of the snippet backend and *)
(* the two tables they read and write.  Every await of a handler is one    *)
(* atomic store step; the synchronous code that follows an await runs in   *)
(* the same step.  Each client (Procs) issues one call; the calls of       *)
(* different clients interleave their store steps freely (Spec) or run one *)
(* after the other (SerialSpec).                                           *)
(*                                                                         *)
(* A value that is `undefined` in the code (an optional input that was not *)
(* given, a nullable column that was never set) is a field that is absent  *)
(* from the record: "f \in DOMAIN input" is `input.f !== undefined`.       *)
(***************************************************************************)
EXTENDS Integers, Sequences, FiniteSets, TLC

VARIABLES
    colls,      \* table SnippetCollections: id -> row
    snips,      \* table Snippets: id -> row
    clock,      \* the wall clock read by `new Date()`
    nextColl,   \* number of collection ids handed out by crypto.randomUUID()
    nextSnip,   \* number of snippet ids handed out by crypto.randomUUID()
    pc,         \* pc[p]: the await the call of client p is suspended at
    call,       \* call[p]: operation, request context and input of p's call
    loc,        \* loc[p]: the handler's local constants (now, existing, ...)
    result,     \* result[p]: what p's last completed call returned or threw
    storeOps    \* storeOps[p]: store operations issued by p's current call

vars == <<colls, snips, clock, nextColl, nextSnip, pc, call, loc, result,
          storeOps>>

(***************************************************************************)
(* Bounds of the model.                                                    *)
(***************************************************************************)
MaxClock == 2

Procs == {"p1", "p2"}
Users == {"u1", "u2"}
NoUser == "anonymous"       \* context.locals?.user is undefined
Contexts == Users \cup {NoUser}

NoRow == <<>>               \* the record without fields: `undefined`
MissingCollId == "c0"       \* well-formed ids that no row ever has
MissingSnipId == "s0"

(***************************************************************************)
(* Records as JavaScript objects.                                          *)
(***************************************************************************)
Has(rec, f) == f \in DOMAIN rec

Pick(rec, fields) == [f \in (DOMAIN rec) \cap fields |-> rec[f]]

\* obj with the fields of data assigned: the SET clause of an UPDATE
Assign(obj, data) ==
    [f \in (DOMAIN obj) \cup (DOMAIN data) |->
        IF f \in DOMAIN data THEN data[f] ELSE obj[f]]

Merge(A, B) == { Assign(a, b) : a \in A, b \in B }

CollId(n) == "c" \o ToString(n)
SnipId(n) == "s" \o ToString(n)

Min(a, b) == IF a <= b THEN a ELSE b

(***************************************************************************)
(* Outcomes of a call.                                                     *)
(***************************************************************************)
Success(data) == [success |-> TRUE, data |-> data]

ActionError(code, message) == [success |-> FALSE, code |-> code, message |-> message]

NoResult == [success |-> FALSE, code |-> "NONE", message |-> ""]

Failed(p, code) == ~result[p].success /\ result[p].code = code

(***************************************************************************)
(* Authorization guard.                                                    *)
(***************************************************************************)

\* faulty variant: the check for a missing user is left out
RequireUserUnchecked(context) == Success(context)

RequireUser(context) ==
    IF context = NoUser
    THEN ActionError("UNAUTHORIZED", "You must be signed in to perform this action.")
    ELSE Success(context)


\* faulty variant: the filter on the owner is left out
EnsureCollectionExists(table, collectionId, userId) ==
    LET found == { id \in DOMAIN table : table[id].id = collectionId }
    IN  IF found = {}
        THEN ActionError("NOT_FOUND", "Collection not found.")
        ELSE Success(table[CHOOSE id \in found : TRUE])

\* faulty variant: the filter on the id is left out
EnsureUserHasCollection(table, collectionId, userId) ==
    LET found == { id \in DOMAIN table : table[id].userId = userId }
    IN  IF found = {}
        THEN ActionError("NOT_FOUND", "Collection not found.")
        ELSE Success(table[CHOOSE id \in found : TRUE])

EnsureCollectionOwned(table, collectionId, userId) ==
    LET found == { id \in DOMAIN table :
                     table[id].id = collectionId /\ table[id].userId = userId }
    IN  IF found = {}
        THEN ActionError("NOT_FOUND", "Collection not found.")
        ELSE Success(table[CHOOSE id \in found : TRUE])

\* faulty variant: a row of another user is told apart from a missing row
EnsureSnippetOwnedOrForbidden(table, snippetId, userId) ==
    LET found == { id \in DOMAIN table :
                     table[id].id = snippetId /\ table[id].userId = userId }
    IN  IF found # {}
        THEN Success(table[CHOOSE id \in found : TRUE])
        ELSE IF \E id \in DOMAIN table : table[id].id = snippetId
             THEN ActionError("FORBIDDEN", "Snippet belongs to another user.")
             ELSE ActionError("NOT_FOUND", "Snippet not found.")

EnsureSnippetOwned(table, snippetId, userId) ==
    LET found == { id \in DOMAIN table :
                     table[id].id = snippetId /\ table[id].userId = userId }
    IN  IF found = {}
        THEN ActionError("NOT_FOUND", "Snippet not found.")
        ELSE Success(table[CHOOSE id \in found : TRUE])

(***************************************************************************)
(* Store statements.                                                       *)
(***************************************************************************)

\* faulty variant: the WHERE clause compares the wrong column, no row matches
ClearDefaultsOfNoRow(table, userId, now) ==
    [id \in DOMAIN table |->
        IF table[id].id = userId
        THEN Assign(table[id], [isDefault |-> FALSE, updatedAt |-> now])
        ELSE table[id]]

\* faulty variant: the WHERE clause is left out, the defaults of every user are cleared
ClearDefaultsOfAllUsers(table, userId, now) ==
    [id \in DOMAIN table |->
        Assign(table[id], [isDefault |-> FALSE, updatedAt |-> now])]

\* UPDATE SnippetCollections SET isDefault = false, updatedAt = now WHERE userId = ?
ClearDefaults(table, userId, now) ==
    [id \in DOMAIN table |->
        IF table[id].userId = userId
        THEN Assign(table[id], [isDefault |-> FALSE, updatedAt |-> now])
        ELSE table[id]]


\* faulty variant: the WHERE clause is left out, every row is updated
UpdateEveryRow(table, id, data) ==
    [k \in DOMAIN table |-> Assign(table[k], data)]

\* UPDATE table SET data WHERE id = ?
UpdateWhereId(table, id, data) ==
    [k \in DOMAIN table |->
        IF table[k].id = id THEN Assign(table[k], data) ELSE table[k]]

\* INSERT INTO table VALUES row
Insert(table, row) == table @@ (row.id :> row)

\* SELECT * FROM table WHERE id = ?  (first row, or undefined)
SelectWhereId(table, id) ==
    LET found == { k \in DOMAIN table : table[k].id = id }
    IN  IF found = {} THEN NoRow ELSE table[CHOOSE k \in found : TRUE]

\* ORDER BY key DESC: every order the store may return; rows with equal keys
\* come in any order
OrderByDesc(rows, key) ==
    { s \in [1..Cardinality(rows) -> rows] :
        /\ \A i, j \in DOMAIN s : i # j => s[i] # s[j]
        /\ \A i, j \in DOMAIN s : i < j => s[i][key] >= s[j][key] }

\* faulty variant: the OFFSET is left out, every page is the first
LimitWithoutOffset(s, limit, offset) == SubSeq(s, 1, Min(limit, Len(s)))

\* LIMIT limit OFFSET offset
LimitOffset(s, limit, offset) == SubSeq(s, offset + 1, Min(offset + limit, Len(s)))

(***************************************************************************)
(* Objects the handlers build.                                             *)
(***************************************************************************)

\* faulty variant: isDefault of the input is not copied into the new row
NewCollectionNeverDefault(id, userId, input, now) ==
    Assign([id |-> id, userId |-> userId, name |-> input.name,
            isDefault |-> FALSE, createdAt |-> now, updatedAt |-> now],
           Pick(input, {"description", "icon"}))

NewCollection(id, userId, input, now) ==
    Assign([id |-> id, userId |-> userId, name |-> input.name,
            isDefault |-> IF Has(input, "isDefault") THEN input.isDefault ELSE FALSE,
            createdAt |-> now, updatedAt |-> now],
           Pick(input, {"description", "icon"}))


\* faulty variant: the line that copies isDefault is left out
CollectionUpdateDataWithoutDefault(input, now) ==
    Assign([updatedAt |-> now], Pick(input, {"name", "description", "icon"}))

\* faulty variant: isDefault is defaulted (`input.isDefault ?? false`) instead of skipped
CollectionUpdateDataDefaultingDefault(input, now) ==
    Assign([updatedAt |-> now,
            isDefault |-> IF Has(input, "isDefault") THEN input.isDefault ELSE FALSE],
           Pick(input, {"name", "description", "icon"}))

CollectionUpdateData(input, now) ==
    Assign([updatedAt |-> now],
           Pick(input, {"name", "description", "icon", "isDefault"}))

\* `if (input.isDefault)`: given and true
WantsDefault(input) == Has(input, "isDefault") /\ input.isDefault

NewSnippet(id, userId, input, now) ==
    Assign([id |-> id, collectionId |-> input.collectionId, userId |-> userId,
            title |-> input.title, content |-> input.content,
            isFavorite |-> IF Has(input, "isFavorite") THEN input.isFavorite ELSE FALSE,
            isArchived |-> FALSE, createdAt |-> now, updatedAt |-> now],
           Pick(input, {"language", "description", "tags"}))


\* faulty variant: isArchived is defaulted (`input.isArchived ?? false`) instead of skipped
SnippetUpdateDataDefaultingArchived(input, now) ==
    Assign([updatedAt |-> now,
            isArchived |-> IF Has(input, "isArchived") THEN input.isArchived ELSE FALSE],
           Pick(input, {"title", "language", "content", "description", "tags",
                        "isFavorite"}))

\* faulty variant: createdAt is set along with updatedAt
SnippetUpdateDataResettingCreatedAt(input, now) ==
    Assign([updatedAt |-> now, createdAt |-> now],
           Pick(input, {"title", "language", "content", "description", "tags",
                        "isFavorite", "isArchived"}))

SnippetUpdateData(input, now) ==
    Assign([updatedAt |-> now],
           Pick(input, {"title", "language", "content", "description", "tags",
                        "isFavorite", "isArchived"}))

\* the collectionId branch of updateSnippet is taken
MovesSnippet(input, existing) ==
    Has(input, "collectionId") /\ input.collectionId # existing.collectionId

\* `if (input.collectionId)`: given and not the empty string
FiltersByCollection(input) == Has(input, "collectionId") /\ input.collectionId # ""

\* faulty variant: the filter on isArchived is left out
SnippetFiltersWithArchived(row, userId, input) ==
    /\ row.userId = userId
    /\ FiltersByCollection(input) => row.collectionId = input.collectionId

\* the conjunction of the filters of listSnippets
SnippetFilters(row, userId, input) ==
    /\ row.userId = userId
    /\ FiltersByCollection(input) => row.collectionId = input.collectionId
    /\ ~input.includeArchived => row.isArchived = FALSE

(***************************************************************************)
(* Inputs accepted by the schemas (after the defaults are filled in), over *)
(* small value sets.  Ids are those of the rows in the store, one id that  *)
(* no row has and, where the schema accepts it, the empty string.          *)
(***************************************************************************)
CollIdInputs == (DOMAIN colls) \cup {MissingCollId}
SnipIdInputs == (DOMAIN snips) \cup {MissingSnipId}

PageInputs == { [page |-> 1, pageSize |-> 1], [page |-> 1, pageSize |-> 2],
                [page |-> 2, pageSize |-> 1] }

CreateCollectionInputs ==
    { [name |-> "b"],
      [name |-> "b", isDefault |-> TRUE],
      [name |-> "b", description |-> "b", isDefault |-> FALSE] }

UpdateCollectionInputs ==
    Merge({ [id |-> i] : i \in CollIdInputs },
          { [isDefault |-> TRUE],
            [name |-> "b"],
            [icon |-> "b", isDefault |-> FALSE] })

ListCollectionsInputs == PageInputs

CreateSnippetInputs ==
    Merge({ [collectionId |-> c, title |-> "b", content |-> "b"] : c \in CollIdInputs },
          { NoRow, [language |-> "b", isFavorite |-> TRUE] })

UpdateSnippetInputs ==
    Merge({ [id |-> i] : i \in SnipIdInputs },
          { [title |-> "b"],
            [language |-> "b", content |-> "b", description |-> "b"],
            [isArchived |-> FALSE],
            [isArchived |-> TRUE, isFavorite |-> TRUE] }
          \cup { [collectionId |-> c, tags |-> "b"] : c \in CollIdInputs \cup {""} })

IdInputs == { [id |-> i] : i \in SnipIdInputs }

ListSnippetsInputs ==
    Merge(Merge({NoRow} \cup { [collectionId |-> c] : c \in CollIdInputs \cup {""} },
                { [includeArchived |-> a] : a \in BOOLEAN }),
          PageInputs)

(***************************************************************************)
(* Bookkeeping shared by the steps.                                        *)
(***************************************************************************)
\* `new Date()`: the clock has moved on, or not, since it was last read
Now == { t \in {clock, clock + 1} : t <= MaxClock }

\* the request of p arrives with its context and validated input
Begin(p, op, context, input) ==
    /\ call' = [call EXCEPT ![p] = [op |-> op, user |-> context, input |-> input]]
    /\ storeOps' = [storeOps EXCEPT ![p] = 0]

\* the handler throws or returns: the call is over
Return(p, outcome) ==
    /\ pc' = [pc EXCEPT ![p] = "done"]
    /\ result' = [result EXCEPT ![p] = outcome]
    /\ loc' = [loc EXCEPT ![p] = NoRow]

\* the handler suspends at its next await
Await(p, label, locals) ==
    /\ pc' = [pc EXCEPT ![p] = label]
    /\ loc' = [loc EXCEPT ![p] = locals]
    /\ UNCHANGED result

\* one more statement sent to the store
StoreOp(p) == storeOps' = [storeOps EXCEPT ![p] = @ + 1]

(***************************************************************************)
(* createSnippetCollection                                                 *)
(***************************************************************************)
CreateSnippetCollection(p) ==
    /\ pc[p] = "idle"
    /\ \E context \in Contexts, input \in CreateCollectionInputs :
        /\ Begin(p, "createSnippetCollection", context, input)
        /\ LET user == RequireUser(context)
           IN  IF ~user.success
               THEN /\ Return(p, user)
                    /\ UNCHANGED <<colls, snips, clock, nextColl, nextSnip>>
               ELSE \E now \in Now :
                    /\ clock' = now
                    /\ IF WantsDefault(input)
                       THEN /\ Await(p, "csc_clear", [now |-> now])
                            /\ UNCHANGED nextColl
                       ELSE /\ nextColl' = nextColl + 1
                            /\ Await(p, "csc_insert",
                                     [now |-> now,
                                      collection |-> NewCollection(CollId(nextColl'), user.data, input, now)])
                    /\ UNCHANGED <<colls, snips, nextSnip>>

\* faulty variant: the defaults are not cleared before the insert
CSC_KeepDefaults(p) ==
    /\ pc[p] = "csc_clear"
    /\ colls' = colls
    /\ nextColl' = nextColl + 1
    /\ Await(p, "csc_insert",
             Assign(loc[p], [collection |->
                 NewCollection(CollId(nextColl'), call[p].user, call[p].input, loc[p].now)]))
    /\ StoreOp(p)
    /\ UNCHANGED <<snips, clock, nextSnip, call>>

CSC_ClearDefaults(p) ==
    /\ pc[p] = "csc_clear"
    /\ colls' = ClearDefaults(colls, call[p].user, loc[p].now)
    /\ nextColl' = nextColl + 1
    /\ Await(p, "csc_insert",
             Assign(loc[p], [collection |->
                 NewCollection(CollId(nextColl'), call[p].user, call[p].input, loc[p].now)]))
    /\ StoreOp(p)
    /\ UNCHANGED <<snips, clock, nextSnip, call>>

CSC_Insert(p) ==
    /\ pc[p] = "csc_insert"
    /\ colls' = Insert(colls, loc[p].collection)
    /\ Return(p, Success([collection |-> loc[p].collection]))
    /\ StoreOp(p)
    /\ UNCHANGED <<snips, clock, nextColl, nextSnip, call>>

(***************************************************************************)
(* updateSnippetCollection                                                 *)
(***************************************************************************)
UpdateSnippetCollection(p) ==
    /\ pc[p] = "idle"
    /\ \E context \in Contexts, input \in UpdateCollectionInputs :
        /\ Begin(p, "updateSnippetCollection", context, input)
        /\ LET user == RequireUser(context)
           IN  IF ~user.success
               THEN Return(p, user)
               ELSE Await(p, "usc_ensure", NoRow)
        /\ UNCHANGED <<colls, snips, clock, nextColl, nextSnip>>

USC_EnsureOwned(p) ==
    /\ pc[p] = "usc_ensure"
    /\ StoreOp(p)
    /\ LET existing == EnsureCollectionOwned(colls, call[p].input.id, call[p].user)
       IN  IF ~existing.success
           THEN /\ Return(p, existing)
                /\ UNCHANGED clock
           ELSE \E now \in Now :
                /\ clock' = now
                /\ Await(p, IF WantsDefault(call[p].input) THEN "usc_clear" ELSE "usc_update",
                         [existing |-> existing.data, now |-> now,
                          updateData |-> CollectionUpdateData(call[p].input, now)])
    /\ UNCHANGED <<colls, snips, nextColl, nextSnip, call>>

USC_ClearDefaults(p) ==
    /\ pc[p] = "usc_clear"
    /\ colls' = ClearDefaults(colls, call[p].user, loc[p].now)
    /\ Await(p, "usc_update", loc[p])
    /\ StoreOp(p)
    /\ UNCHANGED <<snips, clock, nextColl, nextSnip, call>>

USC_Update(p) ==
    /\ pc[p] = "usc_update"
    /\ colls' = UpdateWhereId(colls, loc[p].existing.id, loc[p].updateData)
    /\ Await(p, "usc_select", loc[p])
    /\ StoreOp(p)
    /\ UNCHANGED <<snips, clock, nextColl, nextSnip, call>>

USC_Select(p) ==
    /\ pc[p] = "usc_select"
    /\ Return(p, Success([collection |-> SelectWhereId(colls, loc[p].existing.id)]))
    /\ StoreOp(p)
    /\ UNCHANGED <<colls, snips, clock, nextColl, nextSnip, call>>

(***************************************************************************)
(* listMySnippetCollections                                                *)
(***************************************************************************)
ListMySnippetCollections(p) ==
    /\ pc[p] = "idle"
    /\ \E context \in Contexts, input \in ListCollectionsInputs :
        /\ Begin(p, "listMySnippetCollections", context, input)
        /\ LET user == RequireUser(context)
           IN  IF ~user.success
               THEN Return(p, user)
               ELSE Await(p, "lmc_select",
                          [offset |-> (input.page - 1) * input.pageSize])
        /\ UNCHANGED <<colls, snips, clock, nextColl, nextSnip>>

LMC_Select(p) ==
    /\ pc[p] = "lmc_select"
    /\ StoreOp(p)
    /\ \E ordered \in OrderByDesc({ colls[id] : id \in { k \in DOMAIN colls :
                                      colls[k].userId = call[p].user } }, "createdAt") :
         LET items == LimitOffset(ordered, call[p].input.pageSize, loc[p].offset)
         IN  Return(p, Success([items |-> items, total |-> Len(items)]))
    /\ UNCHANGED <<colls, snips, clock, nextColl, nextSnip, call>>

(***************************************************************************)
(* createSnippet                                                           *)
(***************************************************************************)
CreateSnippet(p) ==
    /\ pc[p] = "idle"
    /\ \E context \in Contexts, input \in CreateSnippetInputs :
        /\ Begin(p, "createSnippet", context, input)
        /\ LET user == RequireUser(context)
           IN  IF ~user.success
               THEN Return(p, user)
               ELSE Await(p, "cs_ensure", NoRow)
        /\ UNCHANGED <<colls, snips, clock, nextColl, nextSnip>>

CS_EnsureCollectionOwned(p) ==
    /\ pc[p] = "cs_ensure"
    /\ StoreOp(p)
    /\ LET owned == EnsureCollectionOwned(colls, call[p].input.collectionId, call[p].user)
       IN  IF ~owned.success
           THEN /\ Return(p, owned)
                /\ UNCHANGED <<clock, nextSnip>>
           ELSE \E now \in Now :
                /\ clock' = now
                /\ nextSnip' = nextSnip + 1
                /\ Await(p, "cs_insert",
                         [now |-> now,
                          snippet |-> NewSnippet(SnipId(nextSnip'), call[p].user, call[p].input, now)])
    /\ UNCHANGED <<colls, snips, nextColl, call>>

CS_Insert(p) ==
    /\ pc[p] = "cs_insert"
    /\ snips' = Insert(snips, loc[p].snippet)
    /\ Return(p, Success([snippet |-> loc[p].snippet]))
    /\ StoreOp(p)
    /\ UNCHANGED <<colls, clock, nextColl, nextSnip, call>>

(***************************************************************************)
(* updateSnippet                                                           *)
(***************************************************************************)
UpdateSnippet(p) ==
    /\ pc[p] = "idle"
    /\ \E context \in Contexts, input \in UpdateSnippetInputs :
        /\ Begin(p, "updateSnippet", context, input)
        /\ LET user == RequireUser(context)
           IN  IF ~user.success
               THEN Return(p, user)
               ELSE Await(p, "us_ensure", NoRow)
        /\ UNCHANGED <<colls, snips, clock, nextColl, nextSnip>>

US_EnsureOwned(p) ==
    /\ pc[p] = "us_ensure"
    /\ StoreOp(p)
    /\ LET existing == EnsureSnippetOwned(snips, call[p].input.id, call[p].user)
       IN  IF ~existing.success
           THEN /\ Return(p, existing)
                /\ UNCHANGED clock
           ELSE \E now \in Now :
                /\ clock' = now
                /\ Await(p, IF MovesSnippet(call[p].input, existing.data)
                            THEN "us_ensureColl" ELSE "us_update",
                         [existing |-> existing.data, now |-> now,
                          updateData |-> SnippetUpdateData(call[p].input, now)])
    /\ UNCHANGED <<colls, snips, nextColl, nextSnip, call>>


\* faulty variant: the snippet's current collection is verified instead of the new one
US_EnsureCurrentCollectionOwned(p) ==
    /\ pc[p] = "us_ensureColl"
    /\ StoreOp(p)
    /\ LET owned == EnsureCollectionOwned(colls, loc[p].existing.collectionId, call[p].user)
       IN  IF ~owned.success
           THEN Return(p, owned)
           ELSE Await(p, "us_update",
                      [loc[p] EXCEPT !.updateData =
                          Assign(@, [collectionId |-> call[p].input.collectionId])])
    /\ UNCHANGED <<colls, snips, clock, nextColl, nextSnip, call>>

US_EnsureCollectionOwned(p) ==
    /\ pc[p] = "us_ensureColl"
    /\ StoreOp(p)
    /\ LET owned == EnsureCollectionOwned(colls, call[p].input.collectionId, call[p].user)
       IN  IF ~owned.success
           THEN Return(p, owned)
           ELSE Await(p, "us_update",
                      [loc[p] EXCEPT !.updateData =
                          Assign(@, [collectionId |-> call[p].input.collectionId])])
    /\ UNCHANGED <<colls, snips, clock, nextColl, nextSnip, call>>

US_Update(p) ==
    /\ pc[p] = "us_update"
    /\ snips' = UpdateWhereId(snips, loc[p].existing.id, loc[p].updateData)
    /\ Await(p, "us_select", loc[p])
    /\ StoreOp(p)
    /\ UNCHANGED <<colls, clock, nextColl, nextSnip, call>>

US_Select(p) ==
    /\ pc[p] = "us_select"
    /\ Return(p, Success([snippet |-> SelectWhereId(snips, loc[p].existing.id)]))
    /\ StoreOp(p)
    /\ UNCHANGED <<colls, snips, clock, nextColl, nextSnip, call>>

(***************************************************************************)
(* archiveSnippet                                                          *)
(***************************************************************************)
ArchiveSnippet(p) ==
    /\ pc[p] = "idle"
    /\ \E context \in Contexts, input \in IdInputs :
        /\ Begin(p, "archiveSnippet", context, input)
        /\ LET user == RequireUser(context)
           IN  IF ~user.success
               THEN Return(p, user)
               ELSE Await(p, "as_ensure", NoRow)
        /\ UNCHANGED <<colls, snips, clock, nextColl, nextSnip>>

\* faulty variant: a snippet that is already archived is rejected
AS_EnsureOwnedAndActive(p) ==
    /\ pc[p] = "as_ensure"
    /\ StoreOp(p)
    /\ LET existing == EnsureSnippetOwned(snips, call[p].input.id, call[p].user)
       IN  IF ~existing.success
           THEN /\ Return(p, existing)
                /\ UNCHANGED clock
           ELSE IF existing.data.isArchived
           THEN /\ Return(p, ActionError("BAD_REQUEST", "Snippet is already archived."))
                /\ UNCHANGED clock
           ELSE \E now \in Now :
                /\ clock' = now
                /\ Await(p, "as_update", [existing |-> existing.data, now |-> now])
    /\ UNCHANGED <<colls, snips, nextColl, nextSnip, call>>

AS_EnsureOwned(p) ==
    /\ pc[p] = "as_ensure"
    /\ StoreOp(p)
    /\ LET existing == EnsureSnippetOwned(snips, call[p].input.id, call[p].user)
       IN  IF ~existing.success
           THEN /\ Return(p, existing)
                /\ UNCHANGED clock
           ELSE \E now \in Now :
                /\ clock' = now
                /\ Await(p, "as_update", [existing |-> existing.data, now |-> now])
    /\ UNCHANGED <<colls, snips, nextColl, nextSnip, call>>

AS_Update(p) ==
    /\ pc[p] = "as_update"
    /\ snips' = UpdateWhereId(snips, loc[p].existing.id,
                              [isArchived |-> TRUE, updatedAt |-> loc[p].now])
    /\ Return(p, Success([id |-> loc[p].existing.id]))
    /\ StoreOp(p)
    /\ UNCHANGED <<colls, clock, nextColl, nextSnip, call>>

(***************************************************************************)
(* listSnippets                                                            *)
(***************************************************************************)
ListSnippets(p) ==
    /\ pc[p] = "idle"
    /\ \E context \in Contexts, input \in ListSnippetsInputs :
        /\ Begin(p, "listSnippets", context, input)
        /\ LET user == RequireUser(context)
           IN  IF ~user.success
               THEN Return(p, user)
               ELSE Await(p, IF FiltersByCollection(input) THEN "ls_ensureColl" ELSE "ls_select",
                          NoRow)
        /\ UNCHANGED <<colls, snips, clock, nextColl, nextSnip>>

LS_EnsureCollectionOwned(p) ==
    /\ pc[p] = "ls_ensureColl"
    /\ StoreOp(p)
    /\ LET owned == EnsureCollectionOwned(colls, call[p].input.collectionId, call[p].user)
       IN  IF ~owned.success
           THEN Return(p, owned)
           ELSE Await(p, "ls_select", NoRow)
    /\ UNCHANGED <<colls, snips, clock, nextColl, nextSnip, call>>

LS_Select(p) ==
    /\ pc[p] = "ls_select"
    /\ StoreOp(p)
    /\ \E ordered \in OrderByDesc({ snips[id] : id \in { k \in DOMAIN snips :
                           SnippetFilters(snips[k], call[p].user, call[p].input) } }, "updatedAt") :
         LET offset == (call[p].input.page - 1) * call[p].input.pageSize
             items == LimitOffset(ordered, call[p].input.pageSize, offset)
         IN  Return(p, Success([items |-> items, total |-> Len(items)]))
    /\ UNCHANGED <<colls, snips, clock, nextColl, nextSnip, call>>

(***************************************************************************)
(* getSnippet                                                              *)
(***************************************************************************)
GetSnippet(p) ==
    /\ pc[p] = "idle"
    /\ \E context \in Contexts, input \in IdInputs :
        /\ Begin(p, "getSnippet", context, input)
        /\ LET user == RequireUser(context)
           IN  IF ~user.success
               THEN Return(p, user)
               ELSE Await(p, "gs_ensure", NoRow)
        /\ UNCHANGED <<colls, snips, clock, nextColl, nextSnip>>

GS_EnsureOwned(p) ==
    /\ pc[p] = "gs_ensure"
    /\ StoreOp(p)
    /\ LET snippet == EnsureSnippetOwned(snips, call[p].input.id, call[p].user)
       IN  IF ~snippet.success
           THEN Return(p, snippet)
           ELSE Return(p, Success([snippet |-> snippet.data]))
    /\ UNCHANGED <<colls, snips, clock, nextColl, nextSnip, call>>

(***************************************************************************)
(* Stores the calls start from: the empty store, and a store that earlier  *)
(* calls, run one after the other, have filled.  u1 made c1 its default    *)
(* collection and created c2 within the same clock tick; u2 then created   *)
(* its default collection c3; u1 put s1 into c1 and s2 into c2 and         *)
(* archived s2; u2 put s3 into c3.                                         *)
(***************************************************************************)
SeedCollections ==
    LET c1 == NewCollection(CollId(1), "u1", [name |-> "a", isDefault |-> TRUE], 0)
        c2 == NewCollection(CollId(2), "u1", [name |-> "a", description |-> "a"], 0)
        c3 == NewCollection(CollId(3), "u2", [name |-> "a", isDefault |-> TRUE], 1)
    IN  Insert(Insert(Insert(NoRow, c1), c2), c3)

SeedSnippets ==
    LET s1 == NewSnippet(SnipId(1), "u1",
                         [collectionId |-> CollId(1), title |-> "a", content |-> "a"], 1)
        s2 == NewSnippet(SnipId(2), "u1",
                         [collectionId |-> CollId(2), title |-> "a", content |-> "a",
                          language |-> "a", isFavorite |-> TRUE], 1)
        s3 == NewSnippet(SnipId(3), "u2",
                         [collectionId |-> CollId(3), title |-> "a", content |-> "a"], 1)
    IN  UpdateWhereId(Insert(Insert(Insert(NoRow, s1), s2), s3), SnipId(2),
                      [isArchived |-> TRUE, updatedAt |-> 1])

Stores ==
    { [colls |-> NoRow, snips |-> NoRow, clock |-> 0],
      [colls |-> SeedCollections, snips |-> SeedSnippets, clock |-> 1] }

(***************************************************************************)
(* Specification                                                           *)
(***************************************************************************)
Init ==
    /\ \E store \in Stores :
        /\ colls = store.colls
        /\ snips = store.snips
        /\ clock = store.clock
    /\ nextColl = Cardinality(DOMAIN colls)
    /\ nextSnip = Cardinality(DOMAIN snips)
    /\ pc = [p \in Procs |-> "idle"]
    /\ call = [p \in Procs |-> [op |-> "none", user |-> NoUser, input |-> NoRow]]
    /\ loc = [p \in Procs |-> NoRow]
    /\ result = [p \in Procs |-> NoResult]
    /\ storeOps = [p \in Procs |-> 0]

Step(p) ==
    \/ CreateSnippetCollection(p)
    \/ CSC_ClearDefaults(p)
    \/ CSC_Insert(p)
    \/ UpdateSnippetCollection(p)
    \/ USC_EnsureOwned(p)
    \/ USC_ClearDefaults(p)
    \/ USC_Update(p)
    \/ USC_Select(p)
    \/ ListMySnippetCollections(p)
    \/ LMC_Select(p)
    \/ CreateSnippet(p)
    \/ CS_EnsureCollectionOwned(p)
    \/ CS_Insert(p)
    \/ UpdateSnippet(p)
    \/ US_EnsureOwned(p)
    \/ US_EnsureCollectionOwned(p)
    \/ US_Update(p)
    \/ US_Select(p)
    \/ ArchiveSnippet(p)
    \/ AS_EnsureOwned(p)
    \/ AS_Update(p)
    \/ ListSnippets(p)
    \/ LS_EnsureCollectionOwned(p)
    \/ LS_Select(p)
    \/ GetSnippet(p)
    \/ GS_EnsureOwned(p)

\* the calls interleave their store steps
Next == \E p \in Procs : Step(p)

Spec == Init /\ [][Next]_vars

\* p's call is suspended at an await
InFlight(p) == pc[p] \notin {"idle", "done"}

\* the calls run one at a time: none starts while another is in flight
SerialNext == \E p \in Procs : (\A q \in Procs \ {p} : ~InFlight(q)) /\ Step(p)

SerialSpec == Init /\ [][SerialNext]_vars

(***************************************************************************)
(* Vocabulary of the properties.                                           *)
(***************************************************************************)
\* the ids of the collections of user u that are marked default
Defaults(u) == { id \in DOMAIN colls : colls[id].userId = u /\ colls[id].isDefault }

\* collectionId is the id of a collection that user u owns
OwnsCollection(u, collectionId) ==
    \E id \in DOMAIN colls : colls[id].id = collectionId /\ colls[id].userId = u

\* snippetId is the id of a snippet that user u owns
OwnsSnippet(u, snippetId) ==
    \E id \in DOMAIN snips : snips[id].id = snippetId /\ snips[id].userId = u

\* this step is a step of p's call
Steps(p) == pc'[p] # pc[p]

\* p's call is a createSnippetCollection or updateSnippetCollection with isDefault = true
SetsDefault(p) ==
    /\ call[p].op \in {"createSnippetCollection", "updateSnippetCollection"}
    /\ call[p].user \in Users
    /\ WantsDefault(call[p].input)

\* p is about to send the statement that marks its target collection default
AtDefaultWrite(p) == SetsDefault(p) /\ pc[p] \in {"csc_insert", "usc_update"}

\* the collection p's call inserts or updates
Target(p) == IF pc[p] = "csc_insert" THEN loc[p].collection.id ELSE loc[p].existing.id

\* the id of the collection that p's completed call made default
DefaultMade(p) == result[p].data.collection.id

\* this step changes isArchived of the existing snippet id
ArchivedChanges(id) == id \in DOMAIN snips' /\ snips'[id].isArchived # snips[id].isArchived

\* this step is the UPDATE of p's updateSnippet call on snippet id
UpdatesSnippet(p, id) ==
    /\ pc[p] = "us_update" /\ Steps(p)
    /\ call[p].op = "updateSnippet"
    /\ loc[p].existing.id = id

\* this step is the UPDATE of p's archiveSnippet call on snippet id
ArchivesSnippet(p, id) ==
    /\ pc[p] = "as_update" /\ Steps(p)
    /\ call[p].op = "archiveSnippet"
    /\ loc[p].existing.id = id

(***************************************************************************)
(* C1: when the calls run one at a time, every user has at most one        *)
(* collection marked default in every state, the states between the store  *)
(* steps of a call included.                                               *)
(***************************************************************************)
C1_AtMostOneDefault == \A u \in Users : Cardinality(Defaults(u)) <= 1

\* an updateSnippetCollection has moved the default of a user with several
\* collections away from the collection that was created as the default
C1_Witness ==
    \E p \in Procs :
        /\ pc[p] = "done" /\ result[p].success
        /\ call[p].op = "updateSnippetCollection" /\ SetsDefault(p)
        /\ Defaults(call[p].user) = {DefaultMade(p)}
        /\ \E id \in DOMAIN colls :
              /\ id # DefaultMade(p)
              /\ colls[id].userId = call[p].user
              /\ colls[id].updatedAt = colls[DefaultMade(p)].updatedAt
              /\ colls[id].updatedAt > colls[id].createdAt

(***************************************************************************)
(* C2 as claimed: once a snippet is archived no step brings it back to     *)
(* isArchived = false.                                                     *)
(***************************************************************************)
C2_ArchivedForever ==
    [][\A id \in DOMAIN snips : snips[id].isArchived => snips'[id].isArchived]_vars

(***************************************************************************)
(* C2 amended: an archived snippet stays archived across every step but    *)
(* the UPDATE of an updateSnippet call on it whose input gives             *)
(* isArchived = false.                                                     *)
(***************************************************************************)
C2_ArchivedUntilUpdatedBack ==
    [][\A id \in DOMAIN snips :
          (snips[id].isArchived /\ ~snips'[id].isArchived)
          => \E p \in Procs :
                /\ UpdatesSnippet(p, id)
                /\ Has(call[p].input, "isArchived")
                /\ call[p].input.isArchived = FALSE]_vars

\* an updateSnippet with isArchived = false has just un-archived a snippet
C2_Witness ==
    \E p \in Procs :
        /\ pc[p] = "us_select"
        /\ loc[p].existing.isArchived
        /\ ~snips[loc[p].existing.id].isArchived

(***************************************************************************)
(* C3 as claimed: only the UPDATE of archiveSnippet changes isArchived of  *)
(* an existing snippet.                                                    *)
(***************************************************************************)
C3_OnlyArchiveChangesArchived ==
    [][\A id \in DOMAIN snips :
          ArchivedChanges(id) => \E p \in Procs : ArchivesSnippet(p, id)]_vars

(***************************************************************************)
(* C3 amended: isArchived of an existing snippet is changed only by the    *)
(* UPDATE of an archiveSnippet call on it, which sets it, and by the       *)
(* UPDATE of an updateSnippet call on it whose input gives isArchived,     *)
(* which sets it to the value given.                                       *)
(***************************************************************************)
C3_ArchiveOrUpdateChangesArchived ==
    [][\A id \in DOMAIN snips :
          ArchivedChanges(id)
          => \E p \in Procs :
                \/ ArchivesSnippet(p, id) /\ snips'[id].isArchived
                \/ /\ UpdatesSnippet(p, id)
                   /\ Has(call[p].input, "isArchived")
                   /\ snips'[id].isArchived = call[p].input.isArchived]_vars

\* an updateSnippet with isArchived = true has just archived an active snippet
C3_Witness ==
    \E p \in Procs :
        /\ pc[p] = "us_select"
        /\ Has(call[p].input, "isArchived") /\ call[p].input.isArchived
        /\ ~loc[p].existing.isArchived
        /\ snips[loc[p].existing.id].isArchived

(***************************************************************************)
(* C4: under any interleaving every snippet's collectionId is the id of a  *)
(* collection of the snippet's owner.                                      *)
(***************************************************************************)
C4_SnippetInOwnCollection ==
    \A id \in DOMAIN snips : OwnsCollection(snips[id].userId, snips[id].collectionId)

\* an updateSnippet has moved a snippet to another collection while the
\* other user was creating a snippet
C4_Witness ==
    \E p, q \in Procs :
        /\ pc[p] = "us_select"
        /\ snips[loc[p].existing.id].collectionId # loc[p].existing.collectionId
        /\ pc[q] = "cs_insert"
        /\ call[q].user # call[p].user

(***************************************************************************)
(* C5: an updateSnippet by the owner of the snippet, with a collectionId   *)
(* other than the snippet's that is not a collection of the caller, takes  *)
(* the ownership check of the new collection, fails there with NOT_FOUND   *)
(* and has written nothing: the row is as the call found it.               *)
(***************************************************************************)
C5_MoveToForeignCollectionFails ==
    [][\A p \in Procs :
          (/\ Steps(p)
           /\ call[p].op = "updateSnippet"
           /\ Has(call[p].input, "collectionId")
           /\ ~OwnsCollection(call[p].user, call[p].input.collectionId))
          => /\ (/\ pc[p] = "us_ensure"
                 /\ OwnsSnippet(call[p].user, call[p].input.id)
                 /\ snips[call[p].input.id].collectionId # call[p].input.collectionId)
                => (pc'[p] = "us_ensureColl" /\ snips' = snips /\ colls' = colls)
             /\ pc[p] = "us_ensureColl"
                => /\ pc'[p] = "done"
                   /\ result'[p] = ActionError("NOT_FOUND", "Collection not found.")
                   /\ snips' = snips /\ colls' = colls
                   /\ snips'[loc[p].existing.id] = loc[p].existing]_vars

\* the move of an own snippet into the other user's collection, with tags
\* given as well, has failed
C5_Witness ==
    \E p \in Procs :
        /\ pc[p] = "done" /\ Failed(p, "NOT_FOUND")
        /\ call[p].op = "updateSnippet"
        /\ OwnsSnippet(call[p].user, call[p].input.id)
        /\ Has(call[p].input, "collectionId") /\ Has(call[p].input, "tags")
        /\ call[p].input.collectionId \in DOMAIN colls
        /\ colls[call[p].input.collectionId].userId # call[p].user
        /\ ~Has(snips[call[p].input.id], "tags")

(***************************************************************************)
(* C6: a createSnippet with a collectionId that is not a collection of the *)
(* caller fails with NOT_FOUND at its ownership check and inserts nothing. *)
(***************************************************************************)
C6_CreateInForeignCollectionFails ==
    [][\A p \in Procs :
          (/\ Steps(p)
           /\ pc[p] = "cs_ensure"
           /\ ~OwnsCollection(call[p].user, call[p].input.collectionId))
          => /\ pc'[p] = "done"
             /\ result'[p] = ActionError("NOT_FOUND", "Collection not found.")
             /\ snips' = snips /\ colls' = colls]_vars

\* a createSnippet into the other user's collection and one into a
\* collection that does not exist have failed
C6_Witness ==
    \E p, q \in Procs :
        /\ pc[p] = "done" /\ Failed(p, "NOT_FOUND")
        /\ call[p].op = "createSnippet"
        /\ call[p].input.collectionId \in DOMAIN colls
        /\ colls[call[p].input.collectionId].userId # call[p].user
        /\ pc[q] = "done" /\ Failed(q, "NOT_FOUND")
        /\ call[q].op = "createSnippet"
        /\ call[q].input.collectionId = MissingCollId
        /\ DOMAIN snips = DOMAIN SeedSnippets

(***************************************************************************)
(* C7: a call without an authenticated user is over when its handler has   *)
(* run requireUser: it has thrown UNAUTHORIZED, has sent no statement to   *)
(* the store, and both tables are as they were.                            *)
(***************************************************************************)
C7_UnauthenticatedFailsFirst ==
    [][\A p \in Procs :
          (pc[p] = "idle" /\ Steps(p) /\ call'[p].user = NoUser)
          => /\ pc'[p] = "done"
             /\ result'[p] = ActionError("UNAUTHORIZED",
                                         "You must be signed in to perform this action.")
             /\ storeOps'[p] = 0
             /\ colls' = colls /\ snips' = snips]_vars

\* two unauthenticated calls, a write and a read, have failed
C7_Witness ==
    \E p, q \in Procs :
        /\ pc[p] = "done" /\ call[p].user = NoUser /\ call[p].op = "archiveSnippet"
        /\ pc[q] = "done" /\ call[q].user = NoUser /\ call[q].op = "listSnippets"
        /\ Failed(p, "UNAUTHORIZED") /\ Failed(q, "UNAUTHORIZED")
        /\ storeOps[p] = 0 /\ storeOps[q] = 0

(***************************************************************************)
(* C8: the statement that marks the target of a call default leaves the    *)
(* other collections as they are; sent while another collection of the     *)
(* user is marked default (a concurrent call marked it after this call     *)
(* cleared the defaults), it leaves the user with more than one default.   *)
(***************************************************************************)
C8_DefaultWriteKeepsOtherDefaults ==
    [][\A p \in Procs :
          (/\ AtDefaultWrite(p) /\ Steps(p)
           /\ Defaults(call[p].user) \ {Target(p)} # {})
          => Cardinality(Defaults(call[p].user)') >= 2]_vars

\* two calls of one user that set isDefault = true have both completed and
\* both their targets are marked default
C8_Witness ==
    \E p, q \in Procs :
        /\ p # q /\ call[p].user = call[q].user
        /\ SetsDefault(p) /\ pc[p] = "done" /\ result[p].success
        /\ SetsDefault(q) /\ pc[q] = "done" /\ result[q].success
        /\ DefaultMade(p) # DefaultMade(q)
        /\ {DefaultMade(p), DefaultMade(q)} \subseteq Defaults(call[p].user)

(***************************************************************************)
(* C9 as claimed, for the window in which the user has no default: a call  *)
(* has marked its target default and a concurrent call has cleared the     *)
(* defaults since.  The claim is that the user is left without a default   *)
(* when that call completes too.                                           *)
(***************************************************************************)
C9_RaceLeavesNoDefault ==
    [][\A p \in Procs :
          (/\ AtDefaultWrite(p) /\ Steps(p)
           /\ Defaults(call[p].user) = {}
           /\ \E q \in Procs \ {p} :
                 SetsDefault(q) /\ call[q].user = call[p].user /\ pc[q] = "done")
          => Defaults(call[p].user)' = {}]_vars

(***************************************************************************)
(* C9 amended: when the calls of a user that set isDefault = true have all *)
(* completed, at least one of them successfully, and the user has made no  *)
(* other call that writes collections, at least one collection of the user *)
(* is marked default.                                                      *)
(***************************************************************************)
C9_SettersLeaveADefault ==
    \A u \in Users :
        (/\ \E p \in Procs : SetsDefault(p) /\ call[p].user = u
                             /\ pc[p] = "done" /\ result[p].success
         /\ \A p \in Procs :
               (/\ call[p].user = u
                /\ call[p].op \in {"createSnippetCollection", "updateSnippetCollection"})
               => (SetsDefault(p) /\ pc[p] = "done"))
        => Defaults(u) # {}

\* two updateSnippetCollection calls of one user that set isDefault = true
\* have raced: the row one of them read back is no longer the default
C9_Witness ==
    \E p, q \in Procs :
        /\ p # q /\ call[p].user = call[q].user
        /\ SetsDefault(p) /\ pc[p] = "done" /\ result[p].success
        /\ SetsDefault(q) /\ pc[q] = "done" /\ result[q].success
        /\ ~result[p].data.collection.isDefault
        /\ Defaults(call[p].user) = {DefaultMade(q)}

(***************************************************************************)
(* C10: every row that a step inserts or changes, in either table, belongs *)
(* to the user on whose behalf the step is taken.                          *)
(***************************************************************************)
C10_WritesOnlyOwnRows ==
    [][/\ \A id \in DOMAIN colls' :
             (id \notin DOMAIN colls \/ colls'[id] # colls[id])
             => \E p \in Procs :
                   /\ Steps(p) /\ call[p].user = colls'[id].userId
                   /\ id \in DOMAIN colls => colls[id].userId = call[p].user
       /\ \A id \in DOMAIN snips' :
             (id \notin DOMAIN snips \/ snips'[id] # snips[id])
             => \E p \in Procs :
                   /\ Steps(p) /\ call[p].user = snips'[id].userId
                   /\ id \in DOMAIN snips => snips[id].userId = call[p].user]_vars

\* a call of one user has cleared that user's defaults and the default of
\* the other user is still in place
C10_Witness ==
    \E p \in Procs :
        /\ pc[p] \in {"csc_insert", "usc_update"} /\ SetsDefault(p)
        /\ storeOps[p] >= 1
        /\ \E id \in DOMAIN colls :
              /\ colls[id].userId = call[p].user
              /\ colls[id].updatedAt = loc[p].now
              /\ colls[id].updatedAt > colls[id].createdAt
        /\ \E u \in Users \ {call[p].user} : Defaults(u) # {}

\* the rows of the table that user u owns
OwnRows(table, u) == [id \in { k \in DOMAIN table : table[k].userId = u } |-> table[id]]

\* p's call is about to run one of its ownership guards
AtGuard(p) ==
    pc[p] \in {"usc_ensure", "cs_ensure", "us_ensure", "us_ensureColl", "as_ensure",
               "ls_ensureColl", "gs_ensure"}

\* what that guard yields from the given tables
Guard(p, collections, snippets) ==
    CASE pc[p] = "usc_ensure" ->
           EnsureCollectionOwned(collections, call[p].input.id, call[p].user)
      [] pc[p] \in {"cs_ensure", "us_ensureColl", "ls_ensureColl"} ->
           EnsureCollectionOwned(collections, call[p].input.collectionId, call[p].user)
      [] pc[p] \in {"us_ensure", "as_ensure", "gs_ensure"} ->
           EnsureSnippetOwned(snippets, call[p].input.id, call[p].user)

\* the pages a list statement may return from the rows
Pages(rows, key, limit, offset) ==
    { LimitOffset(ordered, limit, offset) : ordered \in OrderByDesc(rows, key) }

\* the rows of a table, as a set
Rows(table) == { table[id] : id \in DOMAIN table }

(***************************************************************************)
(* C11: what a call of user U reads from the store is what it would read   *)
(* from the store without the rows of the other users.  A guard that fails *)
(* ends the call with the error it yields when no row exists at all, so an *)
(* id of another user's row gives the NOT_FOUND of a missing id; a guard   *)
(* that passes hands on U's own row; a re-select and a list return only    *)
(* what U's own rows give.                                                 *)
(***************************************************************************)
C11_ForeignRowsUnobservable ==
    [][\A p \in Procs :
          Steps(p) =>
          LET u == call[p].user
              ownColls == OwnRows(colls, u)
              ownSnips == OwnRows(snips, u)
          IN  /\ AtGuard(p) =>
                  LET own == Guard(p, ownColls, ownSnips)
                  IN  IF own.success
                      THEN /\ pc[p] \in {"usc_ensure", "us_ensure", "as_ensure"}
                              => (pc'[p] # "done" /\ loc'[p].existing = own.data)
                           /\ pc[p] = "gs_ensure"
                              => result'[p] = Success([snippet |-> own.data])
                           /\ pc'[p] = "done" => result'[p].success
                      ELSE /\ pc'[p] = "done"
                           /\ result'[p] = own
                           /\ result'[p] = Guard(p, NoRow, NoRow)
                           /\ result'[p].code = "NOT_FOUND"
              /\ pc[p] = "usc_select"
                 => result'[p] = Success([collection |->
                                   SelectWhereId(ownColls, loc[p].existing.id)])
              /\ pc[p] = "us_select"
                 => result'[p] = Success([snippet |->
                                   SelectWhereId(ownSnips, loc[p].existing.id)])
              /\ pc[p] = "lmc_select"
                 => /\ result'[p].success
                    /\ result'[p].data.items
                          \in Pages(Rows(ownColls), "createdAt",
                                    call[p].input.pageSize, loc[p].offset)
              /\ pc[p] = "ls_select"
                 => /\ result'[p].success
                    /\ result'[p].data.items
                          \in Pages({ row \in Rows(ownSnips) :
                                        SnippetFilters(row, u, call[p].input) }, "updatedAt",
                                    call[p].input.pageSize,
                                    (call[p].input.page - 1) * call[p].input.pageSize)]_vars

\* a getSnippet on the other user's snippet and an archiveSnippet on an id
\* that no row has have ended with the same error, and the other user's
\* snippet is not archived
C11_Witness ==
    \E p, q \in Procs :
        /\ pc[p] = "done" /\ call[p].op = "getSnippet" /\ call[p].user \in Users
        /\ call[p].input.id \in DOMAIN snips
        /\ snips[call[p].input.id].userId # call[p].user
        /\ pc[q] = "done" /\ call[q].op = "archiveSnippet" /\ call[q].user \in Users
        /\ call[q].input.id = MissingSnipId
        /\ Failed(p, "NOT_FOUND") /\ result[p] = result[q]

\* p's listSnippets call has returned its page
Listed(p) == pc[p] = "done" /\ call[p].op = "listSnippets" /\ result[p].success

\* the rows of the page p's list call returned
Items(p) == { result[p].data.items[i] : i \in DOMAIN result[p].data.items }

(***************************************************************************)
(* C12: every row a listSnippets call returns belongs to the caller, and   *)
(* none of them is archived unless the call gave includeArchived = true,   *)
(* whatever the store, the collectionId and the page.                      *)
(***************************************************************************)
C12_ListHidesArchived ==
    \A p \in Procs :
        Listed(p) =>
            \A row \in Items(p) :
                /\ row.userId = call[p].user
                /\ ~call[p].input.includeArchived => ~row.isArchived

\* a listSnippets without includeArchived has returned a snippet of the
\* caller and left out an archived snippet of the caller that is in the
\* store
C12_Witness ==
    \E p \in Procs :
        /\ Listed(p) /\ ~call[p].input.includeArchived
        /\ Items(p) # {}
        /\ \E id \in DOMAIN snips :
              /\ snips[id].userId = call[p].user /\ snips[id].isArchived
              /\ \A row \in Items(p) : row.id # id
        /\ \E id \in DOMAIN snips : snips[id].userId # call[p].user

\* the fields of a row other than those an archiveSnippet writes
ButArchived(row) == Pick(row, (DOMAIN row) \ {"isArchived", "updatedAt"})

(***************************************************************************)
(* C13: an archiveSnippet on a snippet of the caller passes its guard      *)
(* whether or not the snippet is archived already, and its UPDATE ends the *)
(* call successfully with the id given, leaves the snippet archived and    *)
(* leaves every field of it but isArchived and updatedAt, and every other  *)
(* snippet, as it was.  So a second call on the same id does what the      *)
(* first did.                                                              *)
(***************************************************************************)
C13_ArchiveIdempotent ==
    [][\A p \in Procs :
          (Steps(p) /\ call[p].op = "archiveSnippet")
          => LET id == call[p].input.id
             IN  /\ (pc[p] = "as_ensure" /\ OwnsSnippet(call[p].user, id))
                    => /\ pc'[p] = "as_update"
                       /\ loc'[p].existing = snips[id]
                       /\ snips' = snips
                 /\ pc[p] = "as_update"
                    => /\ pc'[p] = "done"
                       /\ result'[p] = Success([id |-> id])
                       /\ snips'[id].isArchived
                       /\ DOMAIN snips'[id] = DOMAIN snips[id]
                       /\ ButArchived(snips'[id]) = ButArchived(snips[id])
                       /\ \A k \in DOMAIN snips' :
                             k # id => (k \in DOMAIN snips /\ snips'[k] = snips[k])]_vars

\* two archiveSnippet calls on a snippet that an earlier call had archived
\* have both succeeded with the same data; the snippet is archived and its
\* other fields are as they were
C13_Witness ==
    \E p, q \in Procs :
        /\ p # q
        /\ pc[p] = "done" /\ call[p].op = "archiveSnippet" /\ result[p].success
        /\ pc[q] = "done" /\ call[q].op = "archiveSnippet" /\ result[q].success
        /\ call[p].input.id = call[q].input.id
        /\ result[p] = result[q]
        /\ result[p].data.id = call[p].input.id
        /\ LET id == call[p].input.id
           IN  /\ id \in DOMAIN SeedSnippets /\ SeedSnippets[id].isArchived
               /\ snips[id].isArchived
               /\ snips[id].updatedAt > SeedSnippets[id].updatedAt
               /\ ButArchived(snips[id]) = ButArchived(SeedSnippets[id])

(***************************************************************************)
(* C14 as claimed: a listSnippets call that gives a collectionId, the      *)
(* empty string included, which is not the id of a collection of the       *)
(* caller ends with NOT_FOUND after its first statement and never returns  *)
(* a page.                                                                 *)
(***************************************************************************)
C14_UnownedCollectionFailsFast ==
    \A p \in Procs :
        (/\ pc[p] = "done" /\ call[p].op = "listSnippets" /\ call[p].user \in Users
         /\ Has(call[p].input, "collectionId")
         /\ ~OwnsCollection(call[p].user, call[p].input.collectionId))
        => /\ result[p] = ActionError("NOT_FOUND", "Collection not found.")
           /\ storeOps[p] = 1

\* a listSnippets with the empty string as collectionId has returned a page
\* with snippets of the caller
C14_Witness ==
    \E p \in Procs :
        /\ Listed(p)
        /\ Has(call[p].input, "collectionId") /\ call[p].input.collectionId = ""
        /\ ~OwnsCollection(call[p].user, "")
        /\ Items(p) # {}

(***************************************************************************)
(* C15: when the calls run one at a time, the statement by which a         *)
(* createSnippetCollection or updateSnippetCollection with                 *)
(* isDefault = true writes its target leaves the target as the one default *)
(* collection of the caller, and so does the return of the call: the       *)
(* collection it returns is marked default and no other collection of the  *)
(* caller is.                                                              *)
(***************************************************************************)
C15_TargetIsTheDefault ==
    [][\A p \in Procs :
          (SetsDefault(p) /\ Steps(p))
          => /\ AtDefaultWrite(p)
                => /\ Target(p) \in DOMAIN colls'
                   /\ colls'[Target(p)].userId = call[p].user
                   /\ Defaults(call[p].user)' = {Target(p)}
             /\ (pc'[p] = "done" /\ result'[p].success)
                => /\ result'[p].data.collection.isDefault
                   /\ result'[p].data.collection.id
                         = (IF call[p].op = "updateSnippetCollection"
                            THEN call[p].input.id ELSE CollId(nextColl))
                   /\ Defaults(call[p].user)' = {result'[p].data.collection.id}]_vars

\* a user whose store had a default collection has created a new default
\* collection and then made a third collection the default: that one is
\* the only default
C15_Witness ==
    \E p, q \in Procs :
        /\ call[p].op = "createSnippetCollection" /\ SetsDefault(p)
        /\ pc[p] = "done" /\ result[p].success
        /\ call[q].op = "updateSnippetCollection" /\ SetsDefault(q)
        /\ pc[q] = "done" /\ result[q].success
        /\ call[p].user = call[q].user
        /\ DefaultMade(q) # DefaultMade(p)
        /\ ~colls[DefaultMade(p)].isDefault
        /\ Defaults(call[q].user) = {DefaultMade(q)}
        /\ \E id \in DOMAIN SeedCollections :
              /\ SeedCollections[id].userId = call[q].user /\ SeedCollections[id].isDefault
              /\ id # DefaultMade(q)
              /\ ~colls[id].isDefault

\* the fields of a row that are set once, at creation
Identity(row) == Pick(row, {"id", "userId", "createdAt"})

\* no row leaves the table in this step and none changes its identity
KeepsIdentities(table, table2) ==
    /\ DOMAIN table \subseteq DOMAIN table2
    /\ \A id \in DOMAIN table :
          /\ {"id", "userId", "createdAt"} \subseteq DOMAIN table2[id]
          /\ Identity(table2[id]) = Identity(table[id])
          /\ table2[id].id = id

(***************************************************************************)
(* C16: under any interleaving no step removes a row from either table or  *)
(* changes the id, userId or createdAt of a row that is in it.             *)
(***************************************************************************)
C16_IdentityImmutable ==
    [][KeepsIdentities(colls, colls') /\ KeepsIdentities(snips, snips')]_vars

\* an updateSnippetCollection with isDefault = true and an updateSnippet
\* have completed on the filled store: the collection made default, a
\* collection whose default was cleared and the snippet have all changed
\* and kept their identity
C16_Witness ==
    \E p, q \in Procs :
        /\ pc[p] = "done" /\ call[p].op = "updateSnippetCollection"
        /\ SetsDefault(p) /\ result[p].success
        /\ pc[q] = "done" /\ call[q].op = "updateSnippet" /\ result[q].success
        /\ colls[DefaultMade(p)] # SeedCollections[DefaultMade(p)]
        /\ Identity(colls[DefaultMade(p)]) = Identity(SeedCollections[DefaultMade(p)])
        /\ \E id \in DOMAIN colls \ {DefaultMade(p)} :
              /\ SeedCollections[id].isDefault /\ ~colls[id].isDefault
              /\ Identity(colls[id]) = Identity(SeedCollections[id])
        /\ LET id == call[q].input.id
           IN  /\ snips[id] # SeedSnippets[id]
               /\ Identity(snips[id]) = Identity(SeedSnippets[id])
        /\ DOMAIN colls = DOMAIN SeedCollections
        /\ DOMAIN snips = DOMAIN SeedSnippets

\* the fields the input of an update gives for the row
Given(input) == Pick(input, (DOMAIN input) \ {"id"})

\* the row with the given fields and updatedAt assigned, all others kept
Updated(row, input, now) == Assign(row, Assign(Given(input), [updatedAt |-> now]))

(***************************************************************************)
(* C17: when the calls run one at a time, an updateSnippetCollection or    *)
(* updateSnippet that returns successfully returns the target row as it is *)
(* stored, and that row is the row the call found with the fields given in *)
(* the input and updatedAt assigned: a field not given has the value it    *)
(* had, and the row has no field it did not have or was not given.         *)
(***************************************************************************)
C17_PartialUpdate ==
    [][\A p \in Procs :
          (Steps(p) /\ pc[p] \in {"usc_select", "us_select"})
          => LET before == loc[p].existing
                 after == Updated(before, call[p].input, loc[p].now)
             IN  /\ pc'[p] = "done"
                 /\ pc[p] = "usc_select"
                    => /\ colls[before.id] = after
                       /\ result'[p] = Success([collection |-> colls'[before.id]])
                 /\ pc[p] = "us_select"
                    => /\ snips[before.id] = after
                       /\ result'[p] = Success([snippet |-> snips'[before.id]])
                 /\ \A f \in (DOMAIN before) \ (DOMAIN call[p].input \cup {"updatedAt"}) :
                       after[f] = before[f]]_vars

\* an updateSnippet that gave language, content and description and an
\* updateSnippetCollection that gave icon and isDefault have succeeded: the
\* rows have the fields given, the title and favourite mark of the snippet
\* and the name of the collection are those of the filled store
C17_Witness ==
    \E p, q \in Procs :
        /\ pc[p] = "done" /\ call[p].op = "updateSnippet" /\ result[p].success
        /\ pc[q] = "done" /\ call[q].op = "updateSnippetCollection" /\ result[q].success
        /\ DOMAIN Given(call[p].input) = {"language", "content", "description"}
        /\ DOMAIN Given(call[q].input) = {"icon", "isDefault"}
        /\ LET snippet == result[p].data.snippet
               collection == result[q].data.collection
           IN  /\ snips[snippet.id] = snippet
               /\ colls[collection.id] = collection
               /\ Pick(snippet, {"language", "content", "description"}) = Given(call[p].input)
               /\ Pick(collection, {"icon", "isDefault"}) = Given(call[q].input)
               /\ snippet.title = SeedSnippets[snippet.id].title
               /\ snippet.isFavorite = SeedSnippets[snippet.id].isFavorite
               /\ snippet.isFavorite
               /\ collection.name = SeedCollections[collection.id].name
               /\ SeedCollections[collection.id].isDefault
               /\ ~Has(SeedCollections[collection.id], "icon")

\* the rows in the store that match p's list call, and the column it orders by
Matching(p) ==
    IF call[p].op = "listMySnippetCollections"
    THEN { row \in Rows(colls) : row.userId = call[p].user }
    ELSE { row \in Rows(snips) : SnippetFilters(row, call[p].user, call[p].input) }

OrderKey(p) == IF call[p].op = "listMySnippetCollections" THEN "createdAt" ELSE "updatedAt"

\* the row can stand at position n when the rows are put in descending
\* order of the key: the rows with a greater key fit before it, and the
\* rows with a key at least as great reach that far
CanStandAt(row, n, rows, key) ==
    /\ Cardinality({ r \in rows : r[key] > row[key] }) < n
    /\ Cardinality({ r \in rows : r[key] >= row[key] }) >= n

(***************************************************************************)
(* C18: the SELECT of listMySnippetCollections and of listSnippets returns *)
(* for page p and pageSize s the matching rows of the caller that stand at *)
(* the positions (p-1)*s+1 .. p*s of a descending order by createdAt       *)
(* (collections) or updatedAt (snippets): as many rows as there are at     *)
(* those positions, so at most s, each a different matching row, each      *)
(* where the order puts it (rows with equal timestamps may stand either    *)
(* way round).  total is the length of the page returned.                  *)
(***************************************************************************)
C18_PageOfDescendingOrder ==
    [][\A p \in Procs :
          (Steps(p) /\ pc[p] \in {"lmc_select", "ls_select"})
          => LET items == result'[p].data.items
                 size == call[p].input.pageSize
                 offset == (call[p].input.page - 1) * size
                 rows == Matching(p)
                 left == Cardinality(rows) - offset
             IN  /\ pc'[p] = "done" /\ result'[p].success
                 /\ Len(items) = (IF left <= 0 THEN 0 ELSE Min(size, left))
                 /\ Len(items) <= size
                 /\ result'[p].data.total = Len(items)
                 /\ \A i \in DOMAIN items :
                       /\ items[i] \in rows
                       /\ CanStandAt(items[i], offset + i, rows, OrderKey(p))
                 /\ \A i, j \in DOMAIN items : i # j => items[i].id # items[j].id]_vars

\* a listMySnippetCollections for page 2 of size 1 has returned the older
\* of the caller's collections after a createSnippetCollection added a
\* newer one, and total is 1 though the caller has more collections
C18_Witness ==
    \E p, q \in Procs :
        /\ pc[p] = "done" /\ call[p].op = "listMySnippetCollections" /\ result[p].success
        /\ pc[q] = "done" /\ call[q].op = "createSnippetCollection" /\ result[q].success
        /\ call[p].user = call[q].user
        /\ call[p].input = [page |-> 2, pageSize |-> 1]
        /\ result[p].data.total = 1
        /\ Cardinality(Matching(p)) >= 2
        /\ result[p].data.items[1].createdAt < result[q].data.collection.createdAt
        /\ \E row \in Matching(p) :
              /\ row.id # result[q].data.collection.id
              /\ row.createdAt = result[p].data.items[1].createdAt
              /\ row.id # result[p].data.items[1].id

====
